---- MODULE Spec2Model ----
(***************************************************************************)
(* Smart Agriculture Planner: the recommendation core of smart_planner.py  *)
(* (soil normalisation, crop selection, irrigation planning, cost          *)
(* estimation, orchestration) and the front-ends that drive it             *)
(* (web_app.analyze, smart_planner.analyze_endpoint, main.run_chat_loop).  *)
(*                                                                         *)
(* Representation.                                                         *)
(*   - A Python str is a sequence of one-character strings, so that        *)
(*     lower(), strip(), basename() and the "in" test are computed.        *)
(*   - A Python number is a fixed-point integer counting tenths            *)
(*     (Num(250) is 250.0, Num(250) + 1 is 250.1).                         *)
(*   - None / an absent form field is the empty tuple <<>>; a present      *)
(*     value x is <<x>>; a water budget that is still a str s is           *)
(*     <<"str", s>>.                                                       *)
(*   - A call that may raise returns [raised |-> TRUE, exc |-> ...] or     *)
(*     [raised |-> FALSE, value |-> ...].                                  *)
(*   - The outcomes of the random source are parameters of the operators   *)
(*     that consume it; the actions draw them with \E.                     *)
(***************************************************************************)
EXTENDS Integers, Sequences, FiniteSets, TLC

VARIABLES
    h,      \* per worker: the invocation being handled (request, locals, response)
    fs,     \* the staging path "./_tmp_upload.jpg": <<>> when absent, <<w>> when worker w saved it last
    ret,    \* the last direct call of a core function: its name, arguments and result
    db,     \* _CROP_DB, the module-level table of smart_planner.py, as the process holds it
    repeat  \* a recommendation, the calls made after it, and the same recommendation again

vars == <<h, fs, ret, db, repeat>>

----------------------------------------------------------------------------
(* Optional values *)

None == <<>>
Some(x) == <<x>>
IsNone(o) == o = <<>>
Val(o) == o[1]

(* A str held where a number is expected (a blank water_budget field) *)
PyStr(s) == <<"str", s>>
IsStr(v) == Len(v) = 2

(* dict.get(key, default) on a form: the field's value, or the default *)
Get(field, default) == IF IsNone(field) THEN default ELSE Val(field)

----------------------------------------------------------------------------
(* Strings *)

UpperLetters == <<"A","B","C","D","E","F","G","H","I","J","K","L","M",
                  "N","O","P","Q","R","S","T","U","V","W","X","Y","Z">>
LowerLetters == <<"a","b","c","d","e","f","g","h","i","j","k","l","m",
                  "n","o","p","q","r","s","t","u","v","w","x","y","z">>
Whitespace == {" ", "\t", "\n", "\r"}
Digits == <<"0","1","2","3","4","5","6","7","8","9">>

IsUpper(c) == \E i \in 1..Len(UpperLetters) : UpperLetters[i] = c
LowerChar(c) ==
    IF IsUpper(c)
    THEN LowerLetters[CHOOSE i \in 1..Len(UpperLetters) : UpperLetters[i] = c]
    ELSE c

(* str.lower() *)
Lower(s) == [i \in 1..Len(s) |-> LowerChar(s[i])]

(* str.strip(): drop the leading and the trailing whitespace *)
RECURSIVE LStrip(_)
LStrip(s) ==
    IF s # <<>> /\ Head(s) \in Whitespace THEN LStrip(Tail(s)) ELSE s
RECURSIVE RStrip(_)
RStrip(s) ==
    IF s # <<>> /\ s[Len(s)] \in Whitespace
    THEN RStrip(SubSeq(s, 1, Len(s) - 1))
    ELSE s
Strip(s) == RStrip(LStrip(s))

(* sub in s *)
Contains(s, sub) ==
    \E i \in 1..(Len(s) - Len(sub) + 1) : SubSeq(s, i, i + Len(sub) - 1) = sub

(* str.rfind(c) + 1: the index after the last c, 0 when there is none *)
AfterLast(s, c) ==
    IF \E i \in 1..Len(s) : s[i] = c
    THEN CHOOSE i \in 1..Len(s) : s[i] = c /\ \A j \in (i + 1)..Len(s) : s[j] # c
    ELSE 0

(* os.path.basename (posixpath): what follows the last "/" *)
Basename(path) == SubSeq(path, AfterLast(path, "/") + 1, Len(path))

(* bool(s) of a str *)
Truthy(s) == s # <<>>

(* String literals of the program *)
S_loam == <<"l","o","a","m">>
S_sandy == <<"s","a","n","d","y">>
S_clay == <<"c","l","a","y">>
S_silty == <<"s","i","l","t","y">>
S_sand == <<"s","a","n","d">>
S_fine == <<"f","i","n","e">>
S_coarse == <<"c","o","a","r","s","e">>
S_balanced == <<"b","a","l","a","n","c","e","d">>
S_inferred == <<"i","n","f","e","r","r","e","d">>
S_params == <<"p","a","r","a","m","s">>
S_image == <<"i","m","a","g","e">>
S_placeholder == <<"p","l","a","c","e","h","o","l","d","e","r",".","j","p","g">>
S_tmp_upload == <<".","/","_","t","m","p","_","u","p","l","o","a","d",".","j","p","g">>

SoilTypes == <<S_loam, S_sandy, S_clay, S_silty>>
SoilTypeSet == {SoilTypes[i] : i \in 1..Len(SoilTypes)}

----------------------------------------------------------------------------
(* Numbers: fixed point, in tenths *)

Num(n) == n * 10

IsDigit(c) == \E i \in 1..Len(Digits) : Digits[i] = c
DigitVal(c) == (CHOOSE i \in 1..Len(Digits) : Digits[i] = c) - 1
AllDigits(s) == \A i \in 1..Len(s) : IsDigit(s[i])

RECURSIVE NatVal(_)
NatVal(s) ==
    IF s = <<>> THEN 0
    ELSE NatVal(SubSeq(s, 1, Len(s) - 1)) * 10 + DigitVal(s[Len(s)])

ValueError == [raised |-> TRUE, exc |-> "ValueError"]
TypeError == [raised |-> TRUE, exc |-> "TypeError"]
Returned(v) == [raised |-> FALSE, value |-> v]

(* float(s) of a str: surrounding whitespace is ignored, then an optional   *)
(* sign, then digits with at most one "." and at least one digit; anything  *)
(* else raises ValueError.  The inputs of this model carry at most one      *)
(* digit after the point and no exponent, "inf", "nan" or "_".              *)
FloatBody(b) ==
    LET dot == AfterLast(b, ".")
        ip == IF dot = 0 THEN b ELSE SubSeq(b, 1, dot - 1)
        fp == IF dot = 0 THEN <<>> ELSE SubSeq(b, dot + 1, Len(b))
    IN  IF AllDigits(ip) /\ AllDigits(fp) /\ Len(ip) + Len(fp) > 0 /\ Len(fp) <= 1
        THEN Returned(NatVal(ip) * 10 + NatVal(fp))
        ELSE ValueError

Float(s) ==
    LET t == Strip(s)
        signed == t # <<>> /\ t[1] \in {"+", "-"}
        b == IF signed THEN Tail(t) ELSE t
        r == FloatBody(b)
    IN  IF r.raised THEN r
        ELSE IF signed /\ t[1] = "-" THEN Returned(0 - r.value) ELSE r

----------------------------------------------------------------------------
(* Python's float is IEEE-754 binary64.  A finite float is the record       *)
(* [neg, m, e] that stands for (-1)^neg * m * 2^e, with m a significand of  *)
(* SignificandBits bits, most significant first and leading bit 1; zero has *)
(* the significand of zeros and e = 0.  Naturals wider than the checker's   *)
(* integers are sequences of bits, most significant first, and the          *)
(* arithmetic on them goes eight bits at a time.  Overflow, subnormals,     *)
(* infinities and NaN are out of the range of the amounts of this model.    *)

SignificandBits == 53

Zeros(n) == [i \in 1..n |-> 0]

(* The w low bits of n *)
BitsFixed(n, w) == [i \in 1..w |-> (n \div (2 ^ (w - i))) % 2]

RECURSIVE NatOfBits(_)
NatOfBits(bits) ==
    IF bits = <<>> THEN 0
    ELSE 2 * NatOfBits(SubSeq(bits, 1, Len(bits) - 1)) + bits[Len(bits)]

StripLeadingZeros(bits) ==
    IF \A i \in 1..Len(bits) : bits[i] = 0 THEN <<>>
    ELSE SubSeq(bits,
                CHOOSE i \in 1..Len(bits) : bits[i] = 1 /\ \A j \in 1..(i - 1) : bits[j] = 0,
                Len(bits))

BitsOfNat(n) == StripLeadingZeros(BitsFixed(n, 31))

(* bits + 1 *)
Increment(bits) ==
    IF \A i \in 1..Len(bits) : bits[i] = 1 THEN <<1>> \o Zeros(Len(bits))
    ELSE LET last == CHOOSE i \in 1..Len(bits) :
                         bits[i] = 0 /\ \A j \in (i + 1)..Len(bits) : bits[j] = 1
         IN  SubSeq(bits, 1, last - 1) \o <<1>> \o Zeros(Len(bits) - last)

(* bits * k + carry, for a natural k below 2^22 *)
RECURSIVE MulBitsByNat(_, _, _)
MulBitsByNat(bits, k, carry) ==
    IF bits = <<>> THEN BitsOfNat(carry)
    ELSE LET w == IF Len(bits) < 8 THEN Len(bits) ELSE 8
             v == NatOfBits(SubSeq(bits, Len(bits) - w + 1, Len(bits))) * k + carry
         IN  MulBitsByNat(SubSeq(bits, 1, Len(bits) - w), k, v \div (2 ^ w))
                \o BitsFixed(v % (2 ^ w), w)

(* (rem * 2^Len(bits) + bits) divided by a natural d below 2^22, rem < d:   *)
(* quotient q and remainder r                                               *)
RECURSIVE DivBitsByNat(_, _, _)
DivBitsByNat(bits, d, rem) ==
    IF bits = <<>> THEN [q |-> <<>>, r |-> rem]
    ELSE LET w == IF Len(bits) < 8 THEN Len(bits) ELSE 8
             v == rem * (2 ^ w) + NatOfBits(SubSeq(bits, 1, w))
             rest == DivBitsByNat(SubSeq(bits, w + 1, Len(bits)), d, v % d)
         IN  [q |-> BitsFixed(v \div d, w) \o rest.q, r |-> rest.r]

F64Zero == [neg |-> FALSE, m |-> Zeros(SignificandBits), e |-> 0]

(* The float nearest to (bits + f) * 2^e, where 0 <= f < 1 and sticky tells *)
(* whether f > 0: round to nearest, ties to the even significand            *)
RoundToF64(neg, bits, e, sticky) ==
    LET b == StripLeadingZeros(bits)
        drop == Len(b) - SignificandBits
    IN  IF b = <<>> THEN F64Zero
        ELSE IF drop <= 0
        THEN [neg |-> neg, m |-> b \o Zeros(0 - drop), e |-> e + drop]
        ELSE LET keep == SubSeq(b, 1, SignificandBits)
                 guard == b[SignificandBits + 1]
                 below == sticky \/ \E i \in (SignificandBits + 2)..Len(b) : b[i] = 1
                 up == guard = 1 /\ (below \/ keep[SignificandBits] = 1)
                 inc == Increment(keep)
             IN  IF ~up THEN [neg |-> neg, m |-> keep, e |-> e + drop]
                 ELSE IF Len(inc) > SignificandBits
                 THEN [neg |-> neg, m |-> SubSeq(inc, 1, SignificandBits), e |-> e + drop + 1]
                 ELSE [neg |-> neg, m |-> inc, e |-> e + drop]

(* float() of a decimal text whose value is t tenths: the float nearest to  *)
(* t / 10                                                                   *)
F64FromTenths(t) ==
    LET a == IF t < 0 THEN 0 - t ELSE t
        d == DivBitsByNat(BitsOfNat(a) \o Zeros(64), 10, 0)
    IN  RoundToF64(t < 0, d.q, 0 - 64, d.r # 0)

(* k * x for a Python int k: float(k) is exact, and the exact product is    *)
(* rounded once                                                             *)
F64MulInt(k, x) ==
    RoundToF64((k < 0) # x.neg /\ k # 0 /\ x.m[1] = 1,
               MulBitsByNat(x.m, IF k < 0 THEN 0 - k ELSE k, 0), x.e, FALSE)

(* x > 0 *)
F64Positive(x) == ~x.neg /\ x.m[1] = 1

----------------------------------------------------------------------------
(* smart_planner.py: the core *)

(* random.choice(["loam", "sandy", "clay", "silty"]) *)
RandomSoilTypes == SoilTypeSet
(* round(random.uniform(5, 35), 1): the two ends and values between *)
RandomMoisture == {Num(5), Num(12) + 3, Num(35)}
(* round(random.uniform(6.0, 7.5), 1) *)
RandomPH == {Num(6), Num(6) + 8, Num(7) + 5}

(* Variant: the keywords are looked up in the whole path, not the basename *)
analyze_soil_image_path_WholePath(path, rnd_soil, rnd_moisture) ==
    LET whole == Lower(path)
        soil_type ==
            IF Contains(whole, S_clay) THEN S_clay
            ELSE IF Contains(whole, S_sand) THEN S_sandy
            ELSE IF Contains(whole, S_loam) THEN S_loam
            ELSE rnd_soil
        texture ==
            IF Contains(whole, S_clay) THEN S_fine
            ELSE IF Contains(whole, S_sand) THEN S_coarse
            ELSE IF Contains(whole, S_loam) THEN S_balanced
            ELSE S_inferred
    IN  [soil_type |-> soil_type, texture |-> texture, moisture_pct |-> rnd_moisture]

(* Variant: the "sand" keyword yields the keyword itself, which is no key of *)
(* the crop table                                                            *)
analyze_soil_image_path_SandKey(path, rnd_soil, rnd_moisture) ==
    LET basename == Lower(Basename(path))
        soil_type ==
            IF Contains(basename, S_clay) THEN S_clay
            ELSE IF Contains(basename, S_sand) THEN S_sand
            ELSE IF Contains(basename, S_loam) THEN S_loam
            ELSE rnd_soil
        texture ==
            IF Contains(basename, S_clay) THEN S_fine
            ELSE IF Contains(basename, S_sand) THEN S_coarse
            ELSE IF Contains(basename, S_loam) THEN S_balanced
            ELSE S_inferred
    IN  [soil_type |-> soil_type, texture |-> texture, moisture_pct |-> rnd_moisture]

(* Variant: the image profile carries a pH as the manual one does *)
analyze_soil_image_path_WithPH(path, rnd_soil, rnd_moisture) ==
    LET basename == Lower(Basename(path))
        soil_type ==
            IF Contains(basename, S_clay) THEN S_clay
            ELSE IF Contains(basename, S_sand) THEN S_sandy
            ELSE IF Contains(basename, S_loam) THEN S_loam
            ELSE rnd_soil
        texture ==
            IF Contains(basename, S_clay) THEN S_fine
            ELSE IF Contains(basename, S_sand) THEN S_coarse
            ELSE IF Contains(basename, S_loam) THEN S_balanced
            ELSE S_inferred
    IN  [soil_type |-> soil_type, texture |-> texture, moisture_pct |-> rnd_moisture,
         pH |-> Num(6) + 8]

analyze_soil_image_path(path, rnd_soil, rnd_moisture) ==
    LET basename == Lower(Basename(path))
        soil_type ==
            IF Contains(basename, S_clay) THEN S_clay
            ELSE IF Contains(basename, S_sand) THEN S_sandy
            ELSE IF Contains(basename, S_loam) THEN S_loam
            ELSE rnd_soil
        texture ==
            IF Contains(basename, S_clay) THEN S_fine
            ELSE IF Contains(basename, S_sand) THEN S_coarse
            ELSE IF Contains(basename, S_loam) THEN S_balanced
            ELSE S_inferred
    IN  [soil_type |-> soil_type, texture |-> texture, moisture_pct |-> rnd_moisture]

(* Variant: the input is lower-cased but not stripped *)
NormalizeSoilType_NoStrip(soil_type) ==
    LET t == Lower(soil_type)
    IN  IF t \notin SoilTypeSet THEN S_loam ELSE t

(* soil_type.lower().strip(), then the fallback to "loam" *)
NormalizeSoilType(soil_type) ==
    LET t == Strip(Lower(soil_type))
    IN  IF t \notin SoilTypeSet THEN S_loam ELSE t

(* Variant: silty is left out of the mapping and gets the default *)
texture_map_NoSilty(soil_type) ==
    CASE soil_type = S_loam -> S_balanced
      [] soil_type = S_sandy -> S_coarse
      [] soil_type = S_clay -> S_fine
      [] OTHER -> S_balanced

texture_map(soil_type) ==
    CASE soil_type = S_loam -> S_balanced
      [] soil_type = S_sandy -> S_coarse
      [] soil_type = S_clay -> S_fine
      [] soil_type = S_silty -> S_fine
      [] OTHER -> S_balanced

(* texture, moisture_pct and pH are None or a value; a supplied moisture_pct *)
(* or pH is given as its text, which float() converts.                       *)
analyze_soil_from_params(soil_type, texture, moisture_pct, pH, rnd_moisture, rnd_pH) ==
    LET st == NormalizeSoilType(soil_type)
        tx == IF IsNone(texture) THEN texture_map(st) ELSE Val(texture)
        m == IF IsNone(moisture_pct) THEN Returned(rnd_moisture) ELSE Float(Val(moisture_pct))
        p == IF IsNone(pH) THEN Returned(rnd_pH) ELSE Float(Val(pH))
    IN  IF m.raised THEN m
        ELSE IF p.raised THEN p
        ELSE Returned([soil_type |-> st, texture |-> tx,
                       moisture_pct |-> m.value, pH |-> p.value])

(* A record of _CROP_DB; the cost is a Python int and enters only the product *)
(* of cost_estimate                                                          *)
Crop(name, water, cost) ==
    [crop |-> name, water_l_per_day_per_acre |-> Num(water), cost_per_acre_usd |-> cost]

CROP_DB ==
    [t \in SoilTypeSet |->
        CASE t = S_loam -> <<Crop("Millet", 150, 80), Crop("Sorghum", 200, 100),
                             Crop("Maize", 400, 150)>>
          [] t = S_sandy -> <<Crop("Groundnut", 120, 90), Crop("Sorghum", 200, 100)>>
          [] t = S_clay -> <<Crop("Rice", 1200, 300), Crop("Sugarcane", 900, 250)>>
          [] t = S_silty -> <<Crop("Wheat", 220, 110), Crop("Barley", 180, 95)>>]

(* sorted(options, key=water): a stable insertion sort *)
RECURSIVE InsertByWater(_, _)
InsertByWater(sorted, x) ==
    IF sorted = <<>> THEN <<x>>
    ELSE IF Head(sorted).water_l_per_day_per_acre <= x.water_l_per_day_per_acre
         THEN <<Head(sorted)>> \o InsertByWater(Tail(sorted), x)
         ELSE <<x>> \o sorted
RECURSIVE SortedByWater(_)
SortedByWater(options) ==
    IF options = <<>> THEN <<>>
    ELSE InsertByWater(SortedByWater(SubSeq(options, 1, Len(options) - 1)),
                       options[Len(options)])

(* s[:n]: a negative n counts from the end *)
SliceTo(s, n) ==
    LET stop == IF n < 0
                THEN (IF Len(s) + n < 0 THEN 0 ELSE Len(s) + n)
                ELSE (IF n > Len(s) THEN Len(s) ELSE n)
    IN  SubSeq(s, 1, stop)

(* Variant: the options are sorted and cut to top_n in place, in the table *)
TableAfterSelectCrops_InPlace(soil_type, top_n) ==
    IF soil_type \in DOMAIN db
    THEN [db EXCEPT ![soil_type] = SliceTo(SortedByWater(@), top_n)]
    ELSE db

(* The table after select_crops(soil_type, top_n): sorted() and the slice   *)
(* build new lists, and nothing is assigned to _CROP_DB or to its lists     *)
TableAfterSelectCrops(soil_type, top_n) == db

(* The table after irrigation_plan_for_crop or cost_estimate was given      *)
(* crop_info, a record of the table when it comes from select_crops: both   *)
(* read it and build a new dict                                             *)
TableAfterUse(crop_info) == db

(* Variant: the options are sliced in the table's order, unsorted *)
select_crops_Unsorted(soil_type, top_n) ==
    LET options == IF soil_type \in DOMAIN db THEN db[soil_type] ELSE <<>>
    IN  SliceTo(options, top_n)

(* Variant: the options are sorted by water demand, highest first *)
select_crops_Descending(soil_type, top_n) ==
    LET options == IF soil_type \in DOMAIN db THEN db[soil_type] ELSE <<>>
        ascending == SortedByWater(options)
        options_sorted == [i \in 1..Len(ascending) |-> ascending[Len(ascending) + 1 - i]]
    IN  SliceTo(options_sorted, top_n)

(* _CROP_DB.get(soil_type, []) reads the table the process holds *)
select_crops(soil_type, top_n) ==
    LET options == IF soil_type \in DOMAIN db THEN db[soil_type] ELSE <<>>
        options_sorted == SortedByWater(options)
    IN  SliceTo(options_sorted, top_n)

(* Variant: the thresholds are exclusive *)
IrrigationMethod_Strict(w) ==
    IF w < Num(250) THEN "drip" ELSE IF w < Num(600) THEN "sprinkler" ELSE "flood"

IrrigationMethod(w) ==
    IF w <= Num(250) THEN "drip" ELSE IF w <= Num(600) THEN "sprinkler" ELSE "flood"

(* Variant: a falsy budget (0) is taken for an absent one *)
MeetsBudget_Falsy(w, water_budget_l_per_day) ==
    IF IsNone(water_budget_l_per_day) THEN Returned(TRUE)
    ELSE IF IsStr(water_budget_l_per_day) THEN TypeError
    ELSE IF Val(water_budget_l_per_day) = 0 \/ w <= Val(water_budget_l_per_day)
         THEN Returned(TRUE) ELSE Returned(FALSE)

(* True if (budget is None or w <= budget) else False; comparing a number *)
(* with a str raises TypeError                                            *)
MeetsBudget(w, water_budget_l_per_day) ==
    IF IsNone(water_budget_l_per_day) THEN Returned(TRUE)
    ELSE IF IsStr(water_budget_l_per_day) THEN TypeError
    ELSE IF w <= Val(water_budget_l_per_day) THEN Returned(TRUE) ELSE Returned(FALSE)

irrigation_plan_for_crop(crop_info, water_budget_l_per_day) ==
    LET w == crop_info.water_l_per_day_per_acre
        meets_budget == MeetsBudget(w, water_budget_l_per_day)
    IN  IF meets_budget.raised THEN meets_budget
        ELSE Returned(
            [method |-> IrrigationMethod(w),
             recommended_daily_water_l |-> w,
             meets_budget |-> meets_budget.value,
             notes |-> "Drip irrigation recommended for low water usage crops. Adjust frequency by season."])

(* Variant: the area is ignored and the cost of one acre returned *)
cost_estimate_PerAcre(crop_info, area_acres) ==
    LET per_acre == IF "cost_per_acre_usd" \in DOMAIN crop_info
                    THEN crop_info.cost_per_acre_usd ELSE 0
    IN  [area_acres |-> area_acres,
         estimated_total_cost_usd |-> F64MulInt(per_acre, F64FromTenths(Num(1)))]

(* The area is given in tenths, as the decimal the caller wrote; the total  *)
(* is the float product of the int cost and the float area                  *)
cost_estimate(crop_info, area_acres) ==
    LET per_acre == IF "cost_per_acre_usd" \in DOMAIN crop_info
                    THEN crop_info.cost_per_acre_usd ELSE 0
    IN  [area_acres |-> area_acres,
         estimated_total_cost_usd |-> F64MulInt(per_acre, F64FromTenths(area_acres))]

(* The loop that every orchestrator runs over the selected crops; the first *)
(* plan that raises ends it                                                 *)
(* Variant: the cost is estimated for cost_estimate's default area of 1.0 *)
Suggestion_DefaultArea(c, soil, area_acres, water_budget) ==
    [crop |-> c.crop, soil_match |-> soil.soil_type,
     irrigation |-> irrigation_plan_for_crop(c, water_budget).value,
     cost |-> cost_estimate(c, Num(1))]

Suggestion(c, soil, area_acres, water_budget) ==
    [crop |-> c.crop, soil_match |-> soil.soil_type,
     irrigation |-> irrigation_plan_for_crop(c, water_budget).value,
     cost |-> cost_estimate(c, area_acres)]

Suggestions(crops, soil, area_acres, water_budget) ==
    IF \E i \in 1..Len(crops) : irrigation_plan_for_crop(crops[i], water_budget).raised
    THEN TypeError
    ELSE Returned([i \in 1..Len(crops) |->
                      Suggestion(crops[i], soil, area_acres, water_budget)])

(* The core functions a run of the loop invokes *)
LoopCalls(crops, water_budget) ==
    IF crops = <<>> THEN {}
    ELSE IF irrigation_plan_for_crop(crops[1], water_budget).raised
         THEN {"irrigation_plan_for_crop"}
         ELSE {"irrigation_plan_for_crop", "cost_estimate"}

(* image_path is None or a str; both branches of the existence test call   *)
(* analyze_soil_image_path, with the placeholder name for a falsy path.     *)
analyze_and_suggest(image_path, area_acres, water_budget, exists, rnd_soil, rnd_moisture) ==
    LET truthy == ~IsNone(image_path) /\ Truthy(Val(image_path))
        soil == IF truthy /\ exists
                THEN analyze_soil_image_path(Val(image_path), rnd_soil, rnd_moisture)
                ELSE analyze_soil_image_path(IF truthy THEN Val(image_path) ELSE S_placeholder,
                                             rnd_soil, rnd_moisture)
        crops == select_crops(soil.soil_type, 5)
        suggestions == Suggestions(crops, soil, area_acres, water_budget)
    IN  IF suggestions.raised THEN suggestions
        ELSE Returned([soil_analysis |-> soil, area_acres |-> area_acres,
                       water_budget_l_per_day |-> water_budget,
                       suggestions |-> suggestions.value])

----------------------------------------------------------------------------
(* Inputs of the direct calls *)

SoilTypeInputs ==
    { S_loam, S_sandy, S_clay, S_silty, S_sand, <<>>,
      <<" ","L","o","a","m"," ">>, <<"C","L","A","Y">>, <<"s","a","n","d","y","\n">>,
      <<"\t","c","l","a","y">>, <<"S","i","l","t","y">>, <<"l","o"," ","a","m">>,
      <<"b","o","g","u","s">> }

TextureInputs == { None, Some(S_fine), Some(S_coarse), Some(<<>>) }

NumberTextInputs ==
    { <<"2","0">>, <<"1","5",".","5">>, <<" ","7"," ">>, <<"-","1","0","0">>,
      <<"a","b","c">>, <<"1",".","2",".","3">>, <<>> }

OptNumberTextInputs == { None } \cup { Some(t) : t \in NumberTextInputs }

PathInputs ==
    { <<"s","o","i","l","_","c","l","a","y",".","j","p","g">>,
      <<"p","a","t","h","/","t","o","/","s","o","i","l","_","l","o","a","m",".","j","p","g">>,
      <<"s","a","m","p","l","e","s","/","s","o","i","l","_","s","a","n","d","y",".","j","p","g">>,
      <<"c","l","a","y","/","x",".","j","p","g">>,
      <<"c","l","a","y","/">>,
      <<"c","l","a","/","y">>,
      <<"S","A","N","D",".","P","N","G">>,
      <<"s","a","n","d","c","l","a","y">>,
      <<"l","o","a","m","s","a","n","d">>,
      <<"M","y"," ","L","o","a","m",".","j","p","g">>,
      <<"x",".","j","p","g">>,
      S_placeholder, S_tmp_upload, <<>> }

(* Water demands: the table's, the thresholds and their neighbours *)
DemandInputs ==
    { Num(0), Num(120), Num(150), Num(250) - 1, Num(250), Num(250) + 1, Num(300),
      Num(400), Num(600) - 1, Num(600), Num(600) + 1, Num(900), Num(1200) }

BudgetInputs ==
    { None } \cup { Some(b) : b \in { Num(-100), Num(0), Num(100), Num(250), Num(300) - 1,
                                       Num(300), Num(300) + 1, Num(600), Num(5000) } }

AreaInputs == { Num(0), 1, 5, Num(1), Num(1) + 1, Num(2), Num(10), Num(-1) }

(* The factors by which the tests scale an area, and some more *)
ScaleInputs == { 0, 1, 2, 3, 4, 10 }

MaxTopN == 5
TopNInputs == (0 - MaxTopN)..MaxTopN

AllCrops == UNION { { CROP_DB[t][i] : i \in 1..Len(CROP_DB[t]) } : t \in DOMAIN CROP_DB }

CropInputs ==
    AllCrops \cup { [crop |-> "Test", water_l_per_day_per_acre |-> w] : w \in DemandInputs }

----------------------------------------------------------------------------
(* Direct calls of the core functions (the unit tests' and scripts' use):  *)
(* ret records one call at a time, and is cleared before the next one.     *)

NoCall == [op |-> "none"]

CallReturn ==
    /\ ret.op # "none"
    /\ ret' = NoCall
    /\ UNCHANGED <<h, fs, db, repeat>>

CallAnalyzeSoilFromParams ==
    /\ ret.op = "none"
    /\ \E soil_type \in SoilTypeInputs, texture \in TextureInputs,
          moisture_pct \in OptNumberTextInputs, pH \in OptNumberTextInputs,
          rnd_moisture \in RandomMoisture, rnd_pH \in RandomPH :
           /\ ret' = [op |-> "analyze_soil_from_params",
                      soil_type |-> soil_type, texture |-> texture,
                      moisture_pct |-> moisture_pct, pH |-> pH,
                      result |-> analyze_soil_from_params(soil_type, texture, moisture_pct,
                                                          pH, rnd_moisture, rnd_pH)]
           /\ UNCHANGED <<h, fs, db, repeat>>

CallAnalyzeSoilImagePath ==
    /\ ret.op = "none"
    /\ \E path \in PathInputs, rnd_soil \in RandomSoilTypes, rnd_moisture \in RandomMoisture :
           /\ ret' = [op |-> "analyze_soil_image_path", path |-> path, rnd_soil |-> rnd_soil,
                      result |-> analyze_soil_image_path(path, rnd_soil, rnd_moisture)]
           /\ UNCHANGED <<h, fs, db, repeat>>

CallSelectCrops ==
    /\ ret.op = "none"
    /\ \E soil_type \in SoilTypeInputs, top_n \in TopNInputs :
           /\ ret' = [op |-> "select_crops", soil_type |-> soil_type, top_n |-> top_n,
                      result |-> select_crops(soil_type, top_n)]
           /\ UNCHANGED <<h, fs, db, repeat>>

CallIrrigationPlan ==
    /\ ret.op = "none"
    /\ \E crop_info \in CropInputs, water_budget \in BudgetInputs :
           /\ ret' = [op |-> "irrigation_plan_for_crop", crop_info |-> crop_info,
                      water_budget |-> water_budget,
                      result |-> irrigation_plan_for_crop(crop_info, water_budget)]
           /\ UNCHANGED <<h, fs, db, repeat>>

CallCostEstimate ==
    /\ ret.op = "none"
    /\ \E crop_info \in CropInputs, area_acres \in AreaInputs :
           /\ ret' = [op |-> "cost_estimate", crop_info |-> crop_info, area_acres |-> area_acres,
                      result |-> cost_estimate(crop_info, area_acres)]
           /\ UNCHANGED <<h, fs, db, repeat>>

(* cost_estimate for the same crop at an area and at k times that area *)
CallCostEstimateScaled ==
    /\ ret.op = "none"
    /\ \E crop_info \in CropInputs \cup { [cost_per_acre_usd |-> 100] },
          area_acres \in AreaInputs, k \in ScaleInputs :
           /\ ret' = [op |-> "cost_estimate_scaled", crop_info |-> crop_info,
                      area_acres |-> area_acres, k |-> k,
                      result |-> cost_estimate(crop_info, area_acres),
                      scaled |-> cost_estimate(crop_info, k * area_acres)]
           /\ UNCHANGED <<h, fs, db, repeat>>

CallAnalyzeAndSuggest ==
    /\ ret.op = "none"
    /\ \E image_path \in { None } \cup { Some(q) : q \in PathInputs },
          area_acres \in AreaInputs, water_budget \in BudgetInputs, exists \in BOOLEAN,
          rnd_soil \in RandomSoilTypes, rnd_moisture \in RandomMoisture :
           /\ ret' = [op |-> "analyze_and_suggest", image_path |-> image_path,
                      area_acres |-> area_acres, water_budget |-> water_budget,
                      result |-> analyze_and_suggest(image_path, area_acres, water_budget,
                                                     exists, rnd_soil, rnd_moisture)]
           /\ UNCHANGED <<h, fs, db, repeat>>

----------------------------------------------------------------------------
(* The front-ends.  One invocation is handled at a time by each worker.      *)

Procs == {1}

Idle ==
    [handler |-> "none", pc |-> "idle", req |-> None,
     image_path |-> None, area |-> None, water_budget |-> None,
     soil |-> None, result |-> None,
     staged |-> FALSE, calls |-> {}, resp |-> None]

(* An HTTP response (status, JSON body); for the console loop, status is 0   *)
(* when the result was printed and 1 when the exception was not caught       *)
Response(status, json) == [status |-> status, json |-> json]
ErrorJson(msg) == [error |-> msg, success |-> FALSE]

Reply(p, status, json) ==
    h' = [h EXCEPT ![p].pc = "done", ![p].resp = Some(Response(status, json))]

(* s.strip() or None *)
StripOrNone(s) == IF Truthy(Strip(s)) THEN Some(Strip(s)) ELSE None

(* a or b, for two optional strs *)
Or(a, b) == IF ~IsNone(a) /\ Truthy(Val(a)) THEN a ELSE b

(* if water_budget: try: water_budget = float(water_budget)                  *)
(*                  except: water_budget = None                              *)
(* A falsy value (None, or the blank str) is left as it is.                  *)
ParseBudget(raw) ==
    IF IsNone(raw) THEN None
    ELSE IF Truthy(Val(raw))
         THEN (IF Float(Val(raw)).raised THEN None ELSE Some(Float(Val(raw)).value))
         ELSE PyStr(Val(raw))

(* Form values *)
T_image_name == <<"s","o","i","l","_","c","l","a","y",".","j","p","g">>
T_2 == <<"2">>
T_half == <<"0",".","5">>
T_200 == <<"2","0","0">>
T_250 == <<"2","5","0">>
T_20 == <<"2","0">>
T_6_8 == <<"6",".","8">>
T_abc == <<"a","b","c">>
T_Clay == <<" ","C","l","a","y"," ">>
T_bogus == <<"b","o","g","u","s">>
T_IMAGE == <<"I","M","A","G","E">>

AreaFields == { None, Some(T_2), Some(T_half), Some(T_abc) }
BudgetFields == { None, Some(<<>>), Some(T_200), Some(T_abc) }
ImageParts == { None, Some(<<>>), Some(T_image_name) }

(* web_app.analyze reads the image part only in image mode and the soil      *)
(* fields only in params mode: the fields a mode never reads are absent.     *)
WebRequests ==
    { [mode |-> mode, image |-> None, area |-> area, water_budget |-> wb,
       soil_type |-> st, texture |-> tx, moisture |-> m, pH |-> ph] :
        mode \in { None, Some(S_params) }, area \in AreaFields, wb \in BudgetFields,
        st \in { None, Some(T_Clay), Some(T_bogus) }, tx \in { None, Some(S_fine) },
        m \in { None, Some(T_20), Some(T_abc) }, ph \in { None, Some(T_6_8), Some(T_abc) } }
    \cup
    { [mode |-> mode, image |-> image, area |-> area, water_budget |-> wb,
       soil_type |-> None, texture |-> None, moisture |-> None, pH |-> None] :
        mode \in { Some(S_image), Some(T_IMAGE) }, image \in ImageParts,
        area \in AreaFields, wb \in BudgetFields }

(* The response has been sent (or the output printed): the worker is free   *)
(* for the next invocation                                                  *)
Finish(p) ==
    /\ h[p].pc = "done"
    /\ h' = [h EXCEPT ![p] = Idle]
    /\ UNCHANGED <<fs, ret, db, repeat>>

(* ---- web_app.analyze ---- *)

WaReceive(p) ==
    /\ h[p].pc = "idle"
    /\ \E r \in WebRequests :
        h' = [h EXCEPT ![p] = [Idle EXCEPT !.handler = "web_app.analyze",
                                           !.pc = "wa_validate", !.req = r]]
    /\ UNCHANGED <<fs, ret, db, repeat>>

(* Variant: an upload with an empty filename is not rejected *)
WaValidate_NoNameCheck(p) ==
    /\ h[p].pc = "wa_validate"
    /\ LET req == h[p].req
           mode == Get(req.mode, S_params)
       IN  IF mode = S_image
           THEN IF IsNone(req.image)
                THEN Reply(p, 400, ErrorJson("No image provided"))
                ELSE h' = [h EXCEPT ![p].pc = "wa_save"]
           ELSE h' = [h EXCEPT ![p].pc = "wa_parse", ![p].image_path = None]
    /\ UNCHANGED <<fs, ret, db, repeat>>

(* lines 29-45: the mode, and in image mode the validation of the upload *)
WaValidate(p) ==
    /\ h[p].pc = "wa_validate"
    /\ LET req == h[p].req
           mode == Get(req.mode, S_params)
       IN  IF mode = S_image
           THEN IF IsNone(req.image)
                THEN Reply(p, 400, ErrorJson("No image provided"))
                ELSE IF Val(req.image) = <<>>
                     THEN Reply(p, 400, ErrorJson("No file selected"))
                     ELSE h' = [h EXCEPT ![p].pc = "wa_save"]
           ELSE h' = [h EXCEPT ![p].pc = "wa_parse", ![p].image_path = None]
    /\ UNCHANGED <<fs, ret, db, repeat>>

(* Variant: the upload is saved, and classified, under its own filename *)
WaSave_OwnName(p) ==
    /\ h[p].pc = "wa_save"
    /\ fs' = Some(p)
    /\ h' = [h EXCEPT ![p].pc = "wa_parse", ![p].image_path = h[p].req.image,
                      ![p].staged = TRUE]
    /\ UNCHANGED <<ret, db, repeat>>

(* lines 40-43: file.save("./_tmp_upload.jpg") *)
WaSave(p) ==
    /\ h[p].pc = "wa_save"
    /\ fs' = Some(p)
    /\ h' = [h EXCEPT ![p].pc = "wa_parse", ![p].image_path = Some(S_tmp_upload),
                      ![p].staged = TRUE]
    /\ UNCHANGED <<ret, db, repeat>>

(* lines 47-55: area and water budget; the except clause of line 104 answers *)
(* a ValueError of float() with status 500                                   *)
WaParse(p) ==
    /\ h[p].pc = "wa_parse"
    /\ LET req == h[p].req
           area == IF IsNone(req.area) THEN Returned(Num(1)) ELSE Float(Val(req.area))
       IN  IF area.raised
           THEN Reply(p, 500, ErrorJson(area.exc))
           ELSE h' = [h EXCEPT ![p].pc = "wa_soil", ![p].area = Some(area.value),
                               ![p].water_budget = ParseBudget(req.water_budget)]
    /\ UNCHANGED <<fs, ret, db, repeat>>

(* lines 57-72: the soil profile, from the manual fields or from the image   *)
(* path; os.path.basename(None) raises TypeError                             *)
WaSoil(p) ==
    /\ h[p].pc = "wa_soil"
    /\ LET req == h[p].req
           mode == Get(req.mode, S_params)
       IN  IF mode = S_params
           THEN \E rnd_moisture \in RandomMoisture, rnd_pH \in RandomPH :
                  LET soil == analyze_soil_from_params(
                                  Strip(Get(req.soil_type, S_loam)),
                                  StripOrNone(Get(req.texture, <<>>)),
                                  StripOrNone(Get(req.moisture, <<>>)),
                                  StripOrNone(Get(req.pH, <<>>)),
                                  rnd_moisture, rnd_pH)
                  IN  IF soil.raised
                      THEN h' = [h EXCEPT ![p].pc = "done",
                                   ![p].calls = @ \cup {"analyze_soil_from_params"},
                                   ![p].resp = Some(Response(500, ErrorJson(soil.exc)))]
                      ELSE h' = [h EXCEPT ![p].pc = "wa_suggest",
                                   ![p].calls = @ \cup {"analyze_soil_from_params"},
                                   ![p].soil = Some(soil.value)]
           ELSE IF IsNone(h[p].image_path)
                THEN h' = [h EXCEPT ![p].pc = "done",
                             ![p].calls = @ \cup {"analyze_soil_image_path"},
                             ![p].resp = Some(Response(500, ErrorJson(TypeError.exc)))]
                ELSE \E rnd_soil \in RandomSoilTypes, rnd_moisture \in RandomMoisture :
                       h' = [h EXCEPT ![p].pc = "wa_exists",
                               ![p].calls = @ \cup {"analyze_soil_image_path"},
                               ![p].soil = Some(analyze_soil_image_path(
                                               Val(h[p].image_path), rnd_soil, rnd_moisture))]
    /\ UNCHANGED <<fs, ret, db, repeat>>

(* line 74: os.path.exists(image_path) *)
WaExists(p) ==
    /\ h[p].pc = "wa_exists"
    /\ h' = [h EXCEPT ![p].pc = IF IsNone(fs) THEN "wa_suggest" ELSE "wa_remove"]
    /\ UNCHANGED <<fs, ret, db, repeat>>

(* Variant: a failure of os.remove, the file being gone, is not swallowed *)
WaRemove_Unguarded(p) ==
    /\ h[p].pc = "wa_remove"
    /\ fs' = None
    /\ IF IsNone(fs)
       THEN Reply(p, 500, ErrorJson("FileNotFoundError"))
       ELSE h' = [h EXCEPT ![p].pc = "wa_suggest"]
    /\ UNCHANGED <<ret, db, repeat>>

(* lines 75-78: os.remove(image_path); a failure is swallowed *)
WaRemove(p) ==
    /\ h[p].pc = "wa_remove"
    /\ fs' = None
    /\ h' = [h EXCEPT ![p].pc = "wa_suggest"]
    /\ UNCHANGED <<ret, db, repeat>>

(* lines 80-105: the suggestions and the response *)
WaSuggest(p) ==
    /\ h[p].pc = "wa_suggest"
    /\ LET soil == Val(h[p].soil)
           area == Val(h[p].area)
           water_budget == h[p].water_budget
           crops == select_crops(soil.soil_type, 5)
           suggestions == Suggestions(crops, soil, area, water_budget)
           calls == h[p].calls \cup {"select_crops"} \cup LoopCalls(crops, water_budget)
       IN  IF suggestions.raised
           THEN h' = [h EXCEPT ![p].pc = "done", ![p].calls = calls,
                        ![p].resp = Some(Response(500, ErrorJson(suggestions.exc)))]
           ELSE h' = [h EXCEPT ![p].pc = "done", ![p].calls = calls,
                        ![p].resp = Some(Response(200,
                            [success |-> TRUE, soil_analysis |-> soil, area_acres |-> area,
                             water_budget_l_per_day |-> water_budget,
                             suggestions |-> suggestions.value]))]
    /\ UNCHANGED <<fs, ret, db, repeat>>

(* ---- smart_planner.analyze_endpoint ---- *)

(* request.form.get('area', request.args.get('area', 1.0)): None stands for *)
(* the default 1.0                                                          *)
Or2Area(req) == IF IsNone(req.form_area) THEN req.args_area ELSE req.form_area

(* The core functions a call of analyze_and_suggest invokes *)
OrchestratorCalls(image_path, water_budget, rnd_soil, rnd_moisture) ==
    LET truthy == ~IsNone(image_path) /\ Truthy(Val(image_path))
        soil == analyze_soil_image_path(IF truthy THEN Val(image_path) ELSE S_placeholder,
                                        rnd_soil, rnd_moisture)
    IN  {"analyze_soil_image_path", "select_crops"}
        \cup LoopCalls(select_crops(soil.soil_type, 5), water_budget)

EndpointRequests ==
    { [form_water_budget |-> fwb, args_water_budget |-> awb,
       form_area |-> fa, args_area |-> aa, image |-> image] :
        fwb \in BudgetFields, awb \in { None, Some(<<>>), Some(T_250) },
        fa \in { None, Some(T_2), Some(T_abc) }, aa \in { None, Some(T_half) },
        image \in ImageParts }

EpReceive(p) ==
    /\ h[p].pc = "idle"
    /\ \E r \in EndpointRequests :
        h' = [h EXCEPT ![p] = [Idle EXCEPT !.handler = "analyze_endpoint",
                                           !.pc = "ep_parse", !.req = r]]
    /\ UNCHANGED <<fs, ret, db, repeat>>

(* lines 127-137: water budget, area, and whether a file was uploaded; an   *)
(* exception leaves the view and the framework answers with status 500.     *)
(* bool(file) of an upload is bool(file.filename).                          *)
EpParse(p) ==
    /\ h[p].pc = "ep_parse"
    /\ LET req == h[p].req
           raw_area == Or2Area(req)
           area == IF IsNone(raw_area) THEN Returned(Num(1)) ELSE Float(Val(raw_area))
           water_budget == ParseBudget(Or(req.form_water_budget, req.args_water_budget))
           file == ~IsNone(req.image) /\ Truthy(Val(req.image))
       IN  IF area.raised
           THEN Reply(p, 500, [error |-> area.exc])
           ELSE h' = [h EXCEPT ![p].pc = IF file THEN "ep_save" ELSE "ep_analyze",
                               ![p].area = Some(area.value),
                               ![p].water_budget = water_budget,
                               ![p].image_path = None]
    /\ UNCHANGED <<fs, ret, db, repeat>>

(* lines 138-141 *)
EpSave(p) ==
    /\ h[p].pc = "ep_save"
    /\ fs' = Some(p)
    /\ h' = [h EXCEPT ![p].pc = "ep_analyze", ![p].image_path = Some(S_tmp_upload),
                      ![p].staged = TRUE]
    /\ UNCHANGED <<ret, db, repeat>>

(* line 143: analyze_and_suggest; an exception leaves the view before the   *)
(* cleanup of lines 144-149                                                 *)
EpAnalyze(p) ==
    /\ h[p].pc = "ep_analyze"
    /\ \E rnd_soil \in RandomSoilTypes, rnd_moisture \in RandomMoisture :
        LET result == analyze_and_suggest(h[p].image_path, Val(h[p].area),
                                          h[p].water_budget, ~IsNone(fs),
                                          rnd_soil, rnd_moisture)
            calls == OrchestratorCalls(h[p].image_path, h[p].water_budget,
                                       rnd_soil, rnd_moisture)
        IN  IF result.raised
            THEN h' = [h EXCEPT ![p].pc = "done", ![p].calls = calls,
                         ![p].resp = Some(Response(500, [error |-> result.exc]))]
            ELSE h' = [h EXCEPT ![p].pc = "ep_exists", ![p].calls = calls,
                         ![p].soil = Some(result.value.soil_analysis),
                         ![p].result = Some(result.value)]
    /\ UNCHANGED <<fs, ret, db, repeat>>

(* line 145: image_path and os.path.exists(image_path) *)
EpExists(p) ==
    /\ h[p].pc = "ep_exists"
    /\ h' = [h EXCEPT ![p].pc = IF ~IsNone(h[p].image_path) /\ ~IsNone(fs)
                                THEN "ep_remove" ELSE "ep_respond"]
    /\ UNCHANGED <<fs, ret, db, repeat>>

(* lines 146-149 *)
EpRemove(p) ==
    /\ h[p].pc = "ep_remove"
    /\ fs' = None
    /\ h' = [h EXCEPT ![p].pc = "ep_respond"]
    /\ UNCHANGED <<ret, db, repeat>>

(* line 150 *)
EpRespond(p) ==
    /\ h[p].pc = "ep_respond"
    /\ Reply(p, 200, Val(h[p].result))
    /\ UNCHANGED <<fs, ret, db, repeat>>

(* ---- main.run_chat_loop: the lines typed at the prompts ---- *)

PlanInputs ==
    { [img |-> img, area |-> area, water |-> water] :
        img \in { <<>>, T_image_name, <<" ","x",".","j","p","g"," ">> },
        area \in { <<>>, T_2, T_half, T_abc },
        water \in { <<>>, T_200, <<" ">>, T_abc } }

SoilInputs ==
    { [soil_type |-> st, texture |-> tx, moisture |-> m, ph |-> ph,
       area |-> area, water |-> water] :
        st \in { <<>>, T_Clay, T_bogus }, tx \in { <<>>, S_fine },
        m \in { <<>>, T_20, T_abc }, ph \in { <<>>, T_6_8, T_abc },
        area \in { <<>>, T_2, T_abc }, water \in { <<>>, T_200, T_abc } }

(* float(x) if x else default, of a stripped input line *)
FloatOr(line, default) ==
    IF Truthy(Strip(line)) THEN Float(Strip(line)) ELSE Returned(default)

(* lines 31-39: the "plan" command.  Whether the typed path exists is not   *)
(* known to the model: both answers are taken.                              *)
ChatPlan(p) ==
    /\ h[p].pc = "idle"
    /\ \E r \in PlanInputs, exists \in BOOLEAN,
          rnd_soil \in RandomSoilTypes, rnd_moisture \in RandomMoisture :
        LET img == Strip(r.img)
            area == FloatOr(r.area, Num(1))
            water == FloatOr(r.water, 0)
            water_budget == IF Truthy(Strip(r.water)) THEN Some(water.value) ELSE None
            image_path == IF Truthy(img) THEN Some(img) ELSE None
            start == [Idle EXCEPT !.handler = "chat_plan", !.pc = "done", !.req = r]
        IN  IF area.raised \/ water.raised
            THEN h' = [h EXCEPT ![p] =
                        [start EXCEPT !.resp = Some(Response(1, [error |-> "ValueError"]))]]
            ELSE LET result == analyze_and_suggest(image_path, area.value, water_budget,
                                                   exists, rnd_soil, rnd_moisture)
                 IN  h' = [h EXCEPT ![p] =
                            [start EXCEPT !.image_path = image_path,
                                          !.area = Some(area.value),
                                          !.water_budget = water_budget,
                                          !.soil = Some(result.value.soil_analysis),
                                          !.result = Some(result.value),
                                          !.calls = OrchestratorCalls(image_path, water_budget,
                                                                      rnd_soil, rnd_moisture),
                                          !.resp = Some(Response(0, result.value))]]
    /\ UNCHANGED <<fs, ret, db, repeat>>

(* lines 41-67: the "soil" command *)
ChatSoil(p) ==
    /\ h[p].pc = "idle"
    /\ \E r \in SoilInputs, rnd_moisture \in RandomMoisture, rnd_pH \in RandomPH :
        LET soil_type == IF Truthy(Strip(r.soil_type)) THEN Strip(r.soil_type) ELSE S_loam
            area == FloatOr(r.area, Num(1))
            water == FloatOr(r.water, 0)
            water_budget == IF Truthy(Strip(r.water)) THEN Some(water.value) ELSE None
            soil == analyze_soil_from_params(soil_type, StripOrNone(r.texture),
                                             StripOrNone(r.moisture), StripOrNone(r.ph),
                                             rnd_moisture, rnd_pH)
            start == [Idle EXCEPT !.handler = "chat_soil", !.pc = "done", !.req = r]
            uncaught == Some(Response(1, [error |-> "ValueError"]))
        IN  IF area.raised \/ water.raised
            THEN h' = [h EXCEPT ![p] = [start EXCEPT !.resp = uncaught]]
            ELSE IF soil.raised
            THEN h' = [h EXCEPT ![p] =
                        [start EXCEPT !.calls = {"analyze_soil_from_params"},
                                      !.resp = uncaught]]
            ELSE LET crops == select_crops(soil.value.soil_type, 5)
                     suggestions == Suggestions(crops, soil.value, area.value, water_budget)
                     result == [soil_analysis |-> soil.value, area_acres |-> area.value,
                                water_budget_l_per_day |-> water_budget,
                                suggestions |-> suggestions.value]
                 IN  h' = [h EXCEPT ![p] =
                            [start EXCEPT !.area = Some(area.value),
                                          !.water_budget = water_budget,
                                          !.soil = Some(soil.value),
                                          !.result = Some(result),
                                          !.calls = {"analyze_soil_from_params", "select_crops"}
                                                    \cup LoopCalls(crops, water_budget),
                                          !.resp = Some(Response(0, result))]]
    /\ UNCHANGED <<fs, ret, db, repeat>>

----------------------------------------------------------------------------
(* Specifications *)

----------------------------------------------------------------------------
(* A recommendation from manual parameters made twice, with other calls of   *)
(* the core in between                                                      *)

(* Params-mode forms with every field supplied *)
ManualRequests ==
    { [mode |-> Some(S_params), image |-> None, area |-> Some(area),
       water_budget |-> Some(wb), soil_type |-> Some(st), texture |-> Some(S_fine),
       moisture |-> Some(T_20), pH |-> Some(T_6_8)] :
        area \in { T_2, T_half }, wb \in { T_200, T_250, T_abc },
        st \in { T_Clay, T_bogus, S_silty } }

(* web_app.analyze in params mode, lines 47-102, from the form to the       *)
(* response                                                                 *)
RecommendFromParams(req, rnd_moisture, rnd_pH) ==
    LET area == IF IsNone(req.area) THEN Returned(Num(1)) ELSE Float(Val(req.area))
        water_budget == ParseBudget(req.water_budget)
        soil == analyze_soil_from_params(
                    Strip(Get(req.soil_type, S_loam)),
                    StripOrNone(Get(req.texture, <<>>)),
                    StripOrNone(Get(req.moisture, <<>>)),
                    StripOrNone(Get(req.pH, <<>>)),
                    rnd_moisture, rnd_pH)
        crops == select_crops(soil.value.soil_type, 5)
        suggestions == Suggestions(crops, soil.value, area.value, water_budget)
    IN  IF area.raised THEN Response(500, ErrorJson(area.exc))
        ELSE IF soil.raised THEN Response(500, ErrorJson(soil.exc))
        ELSE IF suggestions.raised THEN Response(500, ErrorJson(suggestions.exc))
        ELSE Response(200,
                 [success |-> TRUE, soil_analysis |-> soil.value, area_acres |-> area.value,
                  water_budget_l_per_day |-> water_budget,
                  suggestions |-> suggestions.value])

(* The soil type whose crops the recommendation selects *)
RequestSoilType(req) == NormalizeSoilType(Strip(Get(req.soil_type, S_loam)))

NoRepeat == [first |-> None, between |-> {}, again |-> None]

InBetween == ~IsNone(repeat.first) /\ IsNone(repeat.again)

RepeatFirst ==
    /\ IsNone(repeat.first)
    /\ \E req \in ManualRequests, rnd_moisture \in RandomMoisture, rnd_pH \in RandomPH :
           /\ repeat' = [repeat EXCEPT !.first =
                            Some([req |-> req,
                                  result |-> RecommendFromParams(req, rnd_moisture, rnd_pH)])]
           /\ db' = TableAfterSelectCrops(RequestSoilType(req), 5)
    /\ UNCHANGED <<h, fs, ret>>

BetweenSelectCrops ==
    /\ InBetween
    /\ \E soil_type \in SoilTypeInputs, top_n \in TopNInputs :
           db' = TableAfterSelectCrops(soil_type, top_n)
    /\ repeat' = [repeat EXCEPT !.between = @ \cup {"select_crops"}]
    /\ UNCHANGED <<h, fs, ret>>

BetweenIrrigationPlan ==
    /\ InBetween
    /\ \E t \in DOMAIN db, water_budget \in BudgetInputs :
           \E i \in 1..Len(db[t]) :
               /\ ~irrigation_plan_for_crop(db[t][i], water_budget).raised
               /\ db' = TableAfterUse(db[t][i])
    /\ repeat' = [repeat EXCEPT !.between = @ \cup {"irrigation_plan_for_crop"}]
    /\ UNCHANGED <<h, fs, ret>>

BetweenCostEstimate ==
    /\ InBetween
    /\ \E t \in DOMAIN db, area_acres \in AreaInputs :
           \E i \in 1..Len(db[t]) :
               /\ cost_estimate(db[t][i], area_acres).area_acres = area_acres
               /\ db' = TableAfterUse(db[t][i])
    /\ repeat' = [repeat EXCEPT !.between = @ \cup {"cost_estimate"}]
    /\ UNCHANGED <<h, fs, ret>>

BetweenAnalyzeAndSuggest ==
    /\ InBetween
    /\ \E rnd_soil \in RandomSoilTypes, rnd_moisture \in RandomMoisture,
          area_acres \in AreaInputs, water_budget \in BudgetInputs :
           LET result == analyze_and_suggest(None, area_acres, water_budget, FALSE,
                                             rnd_soil, rnd_moisture)
           IN  db' = TableAfterSelectCrops(result.value.soil_analysis.soil_type, 5)
    /\ repeat' = [repeat EXCEPT !.between = @ \cup {"analyze_and_suggest"}]
    /\ UNCHANGED <<h, fs, ret>>

(* Another recommendation, of any params-mode form *)
BetweenRecommend ==
    /\ InBetween
    /\ \E req \in { r \in WebRequests : Get(r.mode, S_params) = S_params } :
           db' = TableAfterSelectCrops(RequestSoilType(req), 5)
    /\ repeat' = [repeat EXCEPT !.between = @ \cup {"recommend"}]
    /\ UNCHANGED <<h, fs, ret>>

RepeatAgain ==
    /\ InBetween
    /\ \E rnd_moisture \in RandomMoisture, rnd_pH \in RandomPH :
           LET req == Val(repeat.first).req
           IN  /\ repeat' = [repeat EXCEPT !.again =
                                Some(RecommendFromParams(req, rnd_moisture, rnd_pH))]
               /\ db' = TableAfterSelectCrops(RequestSoilType(req), 5)
    /\ UNCHANGED <<h, fs, ret>>

----------------------------------------------------------------------------
(* web_app.analyze served by several workers at once, each step of a        *)
(* handler interleaving with the steps of the others                        *)

NumWorkers == 2
Workers == 1..NumWorkers

(* Image-mode forms that are answered 200 when served alone: a named        *)
(* upload, no area, the water budget absent or a number                     *)
ValidImageRequests ==
    { r \in WebRequests :
        /\ r.mode = Some(S_image)
        /\ r.image = Some(T_image_name)
        /\ IsNone(r.area)
        /\ r.water_budget \in { None, Some(T_200) } }

WaReceiveImage(p) ==
    /\ h[p].pc = "idle"
    /\ \E r \in ValidImageRequests :
        h' = [h EXCEPT ![p] = [Idle EXCEPT !.handler = "web_app.analyze",
                                           !.pc = "wa_validate", !.req = r]]
    /\ UNCHANGED <<fs, ret, db, repeat>>

----------------------------------------------------------------------------
(* The specifications *)

Init ==
    /\ h = [p \in Procs |-> Idle]
    /\ fs = None
    /\ ret = NoCall
    /\ db = CROP_DB
    /\ repeat = NoRepeat

(* The front-ends serving requests *)
Next ==
    \E p \in Procs :
        \/ WaReceive(p) \/ WaValidate(p) \/ WaSave(p) \/ WaParse(p) \/ WaSoil(p)
        \/ WaExists(p) \/ WaRemove(p) \/ WaSuggest(p)
        \/ EpReceive(p) \/ EpParse(p) \/ EpSave(p) \/ EpAnalyze(p)
        \/ EpExists(p) \/ EpRemove(p) \/ EpRespond(p)
        \/ ChatPlan(p) \/ ChatSoil(p)
        \/ Finish(p)

Spec == Init /\ [][Next]_vars

(* The core functions called directly *)
NextCore ==
    \/ CallAnalyzeSoilFromParams
    \/ CallAnalyzeSoilImagePath
    \/ CallSelectCrops
    \/ CallIrrigationPlan
    \/ CallCostEstimate
    \/ CallCostEstimateScaled
    \/ CallAnalyzeAndSuggest
    \/ CallReturn

SpecCore == Init /\ [][NextCore]_vars

(* A recommendation, calls of the core, and the recommendation again *)
NextRepeat ==
    \/ RepeatFirst
    \/ BetweenSelectCrops
    \/ BetweenIrrigationPlan
    \/ BetweenCostEstimate
    \/ BetweenAnalyzeAndSuggest
    \/ BetweenRecommend
    \/ RepeatAgain

SpecRepeat == Init /\ [][NextRepeat]_vars

(* Several workers serving valid image-mode requests to web_app.analyze *)
InitConcurrent ==
    /\ h = [p \in Workers |-> Idle]
    /\ fs = None
    /\ ret = NoCall
    /\ db = CROP_DB
    /\ repeat = NoRepeat

NextConcurrent ==
    \E p \in Workers :
        \/ WaReceiveImage(p) \/ WaValidate(p) \/ WaSave(p) \/ WaParse(p) \/ WaSoil(p)
        \/ WaExists(p) \/ WaRemove(p) \/ WaSuggest(p)
        \/ Finish(p)

SpecConcurrent == InitConcurrent /\ [][NextConcurrent]_vars

----------------------------------------------------------------------------
(* Properties of the core functions, checked under SpecCore *)

(* t is s without its leading and trailing whitespace *)
IsTrimOf(t, s) ==
    \E i \in 1..(Len(s) + 1), j \in 0..Len(s) :
        /\ t = SubSeq(s, i, j)
        /\ \A k \in 1..(i - 1) : s[k] \in Whitespace
        /\ \A k \in (j + 1)..Len(s) : s[k] \in Whitespace
        /\ t # <<>> => (t[1] \notin Whitespace /\ t[Len(t)] \notin Whitespace)

(* b is what follows the last "/" of path *)
IsBasenameOf(b, path) ==
    \E i \in 0..Len(path) :
        /\ b = SubSeq(path, i + 1, Len(path))
        /\ i > 0 => path[i] = "/"
        /\ \A k \in 1..Len(b) : b[k] # "/"

(* C1: analyze_soil_from_params returns as soil_type the lower-cased,       *)
(* trimmed input when that is loam, sandy, clay or silty, and "loam" for    *)
(* every other input; an unrecognized type raises nothing (only an          *)
(* unparseable moisture or pH does), so the soil_type returned is always    *)
(* one of the four.                                                         *)
C1_SoilTypeCoerced ==
    ret.op = "analyze_soil_from_params" =>
        /\ ret.result.raised =>
              \/ ~IsNone(ret.moisture_pct) /\ Float(Val(ret.moisture_pct)).raised
              \/ ~IsNone(ret.pH) /\ Float(Val(ret.pH)).raised
        /\ ~ret.result.raised =>
              LET out == ret.result.value.soil_type
              IN  /\ out \in {S_loam, S_sandy, S_clay, S_silty}
                  /\ \A t \in {S_loam, S_sandy, S_clay, S_silty} :
                        IsTrimOf(t, Lower(ret.soil_type)) => out = t
                  /\ (\A t \in {S_loam, S_sandy, S_clay, S_silty} :
                        ~IsTrimOf(t, Lower(ret.soil_type))) => out = S_loam

C1_Witness ==
    /\ ret.op = "analyze_soil_from_params"
    /\ ret.soil_type = <<"\t","c","l","a","y">>
    /\ ~ret.result.raised
    /\ ret.result.value.soil_type = S_clay

(* C2: irrigation_plan_for_crop picks the method from the demand alone:     *)
(* drip exactly when demand <= 250, sprinkler exactly when                  *)
(* 250 < demand <= 600, flood exactly when demand > 600, for every budget,  *)
(* and recommended_daily_water_l is the demand.                             *)
C2_MethodByDemand ==
    ret.op = "irrigation_plan_for_crop" =>
        LET w == ret.crop_info.water_l_per_day_per_acre
        IN  /\ ~ret.result.raised
            /\ ret.result.value.method = "drip" <=> w <= Num(250)
            /\ ret.result.value.method = "sprinkler" <=> (Num(250) < w /\ w <= Num(600))
            /\ ret.result.value.method = "flood" <=> w > Num(600)
            /\ ret.result.value.recommended_daily_water_l = w

C2_Witness ==
    /\ ret.op = "irrigation_plan_for_crop"
    /\ ret.crop_info.water_l_per_day_per_acre = Num(600)
    /\ ret.water_budget = Some(Num(100))
    /\ ret.result.value.method = "sprinkler"

(* C3: meets_budget is true if and only if the budget is None or            *)
(* demand <= budget; an equal demand meets the budget, and a budget of 0    *)
(* or below is a budget, not an absent one.                                 *)
C3_MeetsBudgetIff ==
    ret.op = "irrigation_plan_for_crop" =>
        LET w == ret.crop_info.water_l_per_day_per_acre
        IN  /\ ~ret.result.raised
            /\ ret.result.value.meets_budget = TRUE <=>
                  (ret.water_budget = None \/ w <= Val(ret.water_budget))

C3_Witness ==
    /\ ret.op = "irrigation_plan_for_crop"
    /\ ret.crop_info.water_l_per_day_per_acre = Num(150)
    /\ ret.water_budget = Some(Num(0))
    /\ ret.result.value.meets_budget = FALSE

NonDecreasingWater(crops) ==
    \A i \in 1..(Len(crops) - 1) :
        crops[i].water_l_per_day_per_acre <= crops[i + 1].water_l_per_day_per_acre

Registered(t) == IF t \in DOMAIN CROP_DB THEN Len(CROP_DB[t]) ELSE 0

(* C4, as claimed: for every soil type t and every integer n,               *)
(* select_crops(t, n) is non-decreasing in water demand, of length at most  *)
(* n and at most the number of crops registered for t.                      *)
C4_LengthAtMostN ==
    ret.op = "select_crops" =>
        /\ NonDecreasingWater(ret.result)
        /\ Len(ret.result) <= ret.top_n
        /\ Len(ret.result) <= Registered(ret.soil_type)

(* C4, amended: select_crops(t, n) is non-decreasing in water demand and of *)
(* length at most the number of crops registered for t (empty for an        *)
(* unregistered t); for n >= 0 its length is min(n, registered), so at most *)
(* n; for n < 0 the slice drops the last -n crops, leaving                  *)
(* max(registered + n, 0).                                                  *)
C4_LengthBySlice ==
    ret.op = "select_crops" =>
        LET reg == Registered(ret.soil_type)
            n == ret.top_n
        IN  /\ NonDecreasingWater(ret.result)
            /\ Len(ret.result) <= reg
            /\ n >= 0 => Len(ret.result) <= n
            /\ n >= 0 => Len(ret.result) = (IF n < reg THEN n ELSE reg)
            /\ n < 0 => Len(ret.result) = (IF reg + n > 0 THEN reg + n ELSE 0)

C4_Witness ==
    /\ ret.op = "select_crops"
    /\ ret.soil_type = S_clay
    /\ ret.top_n = 0 - 1
    /\ Len(ret.result) = 1
    /\ ret.result[1].crop = "Sugarcane"

(* C5: analyze_soil_image_path classifies by the lower-cased base filename, *)
(* first keyword in the order clay, sand, loam: clay/fine, sandy/coarse,    *)
(* loam/balanced, whatever the random source gives; only without a keyword  *)
(* is the soil type the random choice among the four, with texture          *)
(* "inferred".                                                              *)
C5_ClassifiedByBasename ==
    ret.op = "analyze_soil_image_path" =>
        \A b \in {SubSeq(ret.path, i, Len(ret.path)) : i \in 1..(Len(ret.path) + 1)} :
            IsBasenameOf(b, ret.path) =>
                LET name == Lower(b)
                    soil == ret.result
                IN  /\ Contains(name, S_clay) =>
                          soil.soil_type = S_clay /\ soil.texture = S_fine
                    /\ ~Contains(name, S_clay) /\ Contains(name, S_sand) =>
                          soil.soil_type = S_sandy /\ soil.texture = S_coarse
                    /\ ~Contains(name, S_clay) /\ ~Contains(name, S_sand)
                         /\ Contains(name, S_loam) =>
                          soil.soil_type = S_loam /\ soil.texture = S_balanced
                    /\ ~Contains(name, S_clay) /\ ~Contains(name, S_sand)
                         /\ ~Contains(name, S_loam) =>
                          /\ soil.soil_type = ret.rnd_soil
                          /\ soil.soil_type \in {S_loam, S_sandy, S_clay, S_silty}
                          /\ soil.texture = S_inferred

C5_Witness ==
    /\ ret.op = "analyze_soil_image_path"
    /\ ret.path = <<"l","o","a","m","s","a","n","d">>
    /\ ret.rnd_soil = S_silty
    /\ ret.result.soil_type = S_sandy
    /\ ret.result.texture = S_coarse

(* C10: analyze_and_suggest returns at least one suggestion for every       *)
(* outcome of the random choice, every image path (or none), every area and *)
(* budget: the soil type inferred is a key of the crop table, and every key *)
(* has a crop.                                                              *)
C10_NeverEmpty ==
    ret.op = "analyze_and_suggest" =>
        /\ ~ret.result.raised
        /\ ret.result.value.soil_analysis.soil_type \in DOMAIN CROP_DB
        /\ \A t \in DOMAIN CROP_DB : Len(CROP_DB[t]) >= 1
        /\ Len(ret.result.value.suggestions) >= 1

C10_Witness ==
    /\ ret.op = "analyze_and_suggest"
    /\ ret.image_path = None
    /\ ret.result.value.soil_analysis.soil_type = S_silty
    /\ Len(ret.result.value.suggestions) = 2

----------------------------------------------------------------------------
(* Properties of the front-ends, checked under Spec *)

Done(x) == x.pc = "done"
Status(x) == Val(x.resp).status
Json(x) == Val(x.resp).json

IsHttp(x) == x.handler \in {"web_app.analyze", "analyze_endpoint"}
IsConsole(x) == x.handler \in {"chat_plan", "chat_soil"}

(* The invocation ended with a recommendation result *)
HasResult(x) ==
    /\ Done(x)
    /\ \/ IsHttp(x) /\ Status(x) = 200
       \/ IsConsole(x) /\ Status(x) = 0

(* The area as the request gives it: the field's text, None when it is left out *)
RawArea(x) ==
    CASE x.handler = "web_app.analyze" -> x.req.area
      [] x.handler = "analyze_endpoint" ->
            (IF IsNone(x.req.form_area) THEN x.req.args_area ELSE x.req.form_area)
      [] OTHER -> (IF Strip(x.req.area) = <<>> THEN None ELSE Some(x.req.area))

RequestArea(x) == IF IsNone(RawArea(x)) THEN Num(1) ELSE Float(Val(RawArea(x))).value

(* The water budget as the request gives it *)
RawBudget(x) ==
    CASE x.handler = "web_app.analyze" -> x.req.water_budget
      [] x.handler = "analyze_endpoint" ->
            Or(x.req.form_water_budget, x.req.args_water_budget)
      [] OTHER -> Some(x.req.water)

TableWater(soil_type, crop) ==
    { CROP_DB[soil_type][j].water_l_per_day_per_acre :
        j \in { k \in 1..Len(CROP_DB[soil_type]) : CROP_DB[soil_type][k].crop = crop } }

(* C6: in every result an orchestrator builds, the suggestions follow the   *)
(* order of select_crops (non-decreasing water demand), one per selected    *)
(* crop; each has soil_match = soil_analysis.soil_type, cost.area_acres =   *)
(* the request's area and recommended_daily_water_l = the crop's demand in  *)
(* the table; the result carries the request's area and the water budget    *)
(* the orchestrator was given: the request's when that is a number, null    *)
(* when the request has none.                                               *)
C6_ResultFollowsSelection ==
    \A p \in Procs :
        HasResult(h[p]) =>
            LET r == Json(h[p])
                st == r.soil_analysis.soil_type
                crops == select_crops(st, 5)
                sg == r.suggestions
            IN  /\ Len(sg) = Len(crops)
                /\ \A i \in 1..Len(sg) :
                      /\ sg[i].crop = crops[i].crop
                      /\ sg[i].soil_match = st
                      /\ sg[i].cost.area_acres = RequestArea(h[p])
                      /\ TableWater(st, sg[i].crop) = {sg[i].irrigation.recommended_daily_water_l}
                /\ \A i \in 1..(Len(sg) - 1) :
                      sg[i].irrigation.recommended_daily_water_l
                          <= sg[i + 1].irrigation.recommended_daily_water_l
                /\ r.area_acres = RequestArea(h[p])
                /\ r.water_budget_l_per_day = h[p].water_budget
                /\ (IsNone(RawBudget(h[p])) \/ Strip(Val(RawBudget(h[p]))) = <<>>) =>
                      r.water_budget_l_per_day = None
                /\ (~IsNone(RawBudget(h[p])) /\ ~Float(Val(RawBudget(h[p]))).raised) =>
                      r.water_budget_l_per_day = Some(Float(Val(RawBudget(h[p]))).value)

C6_Witness ==
    \E p \in Procs :
        /\ h[p].handler = "web_app.analyze"
        /\ HasResult(h[p])
        /\ h[p].req.area = Some(T_half)
        /\ h[p].req.water_budget = Some(T_200)
        /\ Json(h[p]).soil_analysis.soil_type = S_clay
        /\ Len(Json(h[p]).suggestions) = 2
        /\ Json(h[p]).suggestions[1].crop = "Sugarcane"
        /\ Json(h[p]).suggestions[1].cost.area_acres = 5

(* C7, as claimed: when a handler that staged an upload returns, the staged *)
(* file is gone, whether the request succeeded or failed.                   *)
C7_StagedFileDeleted ==
    \A p \in Procs :
        (IsHttp(h[p]) /\ Done(h[p]) /\ h[p].staged) => IsNone(fs)

(* The field is supplied (not blank) and float() rejects it *)
Unparseable(field) ==
    /\ ~IsNone(field)
    /\ Truthy(Strip(Val(field)))
    /\ Float(Val(field)).raised

(* The fields moisture, pH, area, water_budget the invocation reads *)
NumericFields(x) ==
    CASE x.handler = "web_app.analyze" ->
            {x.req.moisture, x.req.pH, x.req.area, x.req.water_budget}
      [] x.handler = "analyze_endpoint" ->
            {RawArea(x), Or(x.req.form_water_budget, x.req.args_water_budget)}
      [] x.handler = "chat_plan" -> {Some(x.req.area), Some(x.req.water)}
      [] x.handler = "chat_soil" ->
            {Some(x.req.moisture), Some(x.req.ph), Some(x.req.area), Some(x.req.water)}
      [] OTHER -> {}

(* C8, as claimed: a request with an unparseable moisture, pH, area or      *)
(* water_budget ends in a reported error, never in a recommendation result. *)
C8_ParseFailureReported ==
    \A p \in Procs :
        (Done(h[p]) /\ \E f \in NumericFields(h[p]) : Unparseable(f)) => ~HasResult(h[p])

(* The request is an image-mode request to web_app.analyze without an image *)
MissingImage(x) ==
    /\ x.handler = "web_app.analyze"
    /\ x.req.mode = Some(S_image)
    /\ (IsNone(x.req.image) \/ x.req.image = Some(<<>>))

(* C9: an image-mode request to web_app.analyze without an image (no file   *)
(* part, or an empty filename) is answered 400 with success = false before  *)
(* any core function runs: nothing is staged, no core function is called,   *)
(* and the response has neither soil_analysis nor suggestions.              *)
C9_MissingImageRejected ==
    \A p \in Procs :
        MissingImage(h[p]) =>
            /\ ~h[p].staged
            /\ h[p].calls = {}
            /\ h[p].pc \in {"wa_validate", "done"}
            /\ Done(h[p]) =>
                  /\ Status(h[p]) = 400
                  /\ Json(h[p]).success = FALSE
                  /\ DOMAIN Json(h[p]) = {"error", "success"}

C9_Witness ==
    \E p \in Procs :
        /\ MissingImage(h[p])
        /\ h[p].req.image = Some(<<>>)
        /\ Done(h[p])
        /\ Status(h[p]) = 400

----------------------------------------------------------------------------
(* Further properties of the core functions, checked under SpecCore *)

(* C11: analyze_soil_from_params with texture unset returns the texture of  *)
(* the soil type: loam -> balanced, sandy -> coarse, clay -> fine,          *)
(* silty -> fine; a supplied texture is returned unchanged whatever the     *)
(* soil type; an unrecognized soil type with texture unset is coerced to    *)
(* loam and gets loam's texture, balanced.                                  *)
C11_TextureByType ==
    (ret.op = "analyze_soil_from_params" /\ ~ret.result.raised) =>
        LET soil == ret.result.value
            unset == IsNone(ret.texture)
        IN  /\ (unset /\ ret.soil_type = S_loam) => soil.texture = S_balanced
            /\ (unset /\ ret.soil_type = S_sandy) => soil.texture = S_coarse
            /\ (unset /\ ret.soil_type = S_clay) => soil.texture = S_fine
            /\ (unset /\ ret.soil_type = S_silty) => soil.texture = S_fine
            /\ (unset /\ soil.soil_type = S_loam) => soil.texture = S_balanced
            /\ (unset /\ soil.soil_type = S_sandy) => soil.texture = S_coarse
            /\ (unset /\ soil.soil_type \in {S_clay, S_silty}) => soil.texture = S_fine
            /\ (unset /\ \A t \in SoilTypeSet : ~IsTrimOf(t, Lower(ret.soil_type))) =>
                  soil.soil_type = S_loam /\ soil.texture = S_balanced
            /\ ~unset => soil.texture = Val(ret.texture)

C11_Witness ==
    /\ ret.op = "analyze_soil_from_params"
    /\ ret.soil_type = S_silty
    /\ ret.texture = None
    /\ ~ret.result.raised
    /\ ret.result.value.texture = S_fine

(* The cost per acre of a crop record, 0 when it has none *)
CostPerAcre(crop_info) ==
    IF "cost_per_acre_usd" \in DOMAIN crop_info THEN crop_info.cost_per_acre_usd ELSE 0

(* C12, as claimed: cost_estimate returns area_acres unchanged and          *)
(* cost_per_acre_usd x area_acres for every crop record and every area >= 0 *)
(* (0 and non-whole areas included), so the total scales exactly linearly   *)
(* with the area: estimate(c, k * a) = k * estimate(c, a); and a crop with  *)
(* a cost has a total > 0 for every area > 0.                               *)
C12_ExactlyLinear ==
    (ret.op = "cost_estimate_scaled" /\ ret.area_acres >= 0) =>
        /\ ret.result.area_acres = ret.area_acres
        /\ ret.scaled.area_acres = ret.k * ret.area_acres
        /\ ret.scaled.estimated_total_cost_usd
              = F64MulInt(ret.k, ret.result.estimated_total_cost_usd)
        /\ (ret.area_acres > 0 /\ CostPerAcre(ret.crop_info) > 0) =>
              F64Positive(ret.result.estimated_total_cost_usd)

(* C12, amended: cost_estimate returns area_acres unchanged and the float   *)
(* product of the cost and the area, which is the decimal product           *)
(* cost x area itself when the area is a multiple of 0.5, 0 for an area of  *)
(* 0 or a record without a cost, and > 0 for a cost > 0 and an area > 0.    *)
(* estimate(c, k * a) = k * estimate(c, a) holds when k is 0, 1 or a power  *)
(* of two, and for every k when a is a multiple of 0.5; for other k and a   *)
(* the two sides may differ in the last place, each product being rounded.  *)
C12_LinearUpToRounding ==
    (ret.op = "cost_estimate_scaled" /\ ret.area_acres >= 0) =>
        LET total == ret.result.estimated_total_cost_usd
            scaled == ret.scaled.estimated_total_cost_usd
            cost == CostPerAcre(ret.crop_info)
        IN  /\ ret.result.area_acres = ret.area_acres
            /\ ret.scaled.area_acres = ret.k * ret.area_acres
            /\ ret.area_acres % 5 = 0 =>
                  /\ total = F64FromTenths(cost * ret.area_acres)
                  /\ scaled = F64MulInt(ret.k, total)
            /\ ret.k \in {0, 1, 2, 4} => scaled = F64MulInt(ret.k, total)
            /\ (ret.area_acres = 0 \/ cost = 0) => total = F64Zero
            /\ (ret.area_acres > 0 /\ cost > 0) => F64Positive(total)

C12_Witness ==
    /\ ret.op = "cost_estimate_scaled"
    /\ CostPerAcre(ret.crop_info) = 90
    /\ ret.area_acres = Num(1) + 1
    /\ ret.k = 3
    /\ F64Positive(ret.result.estimated_total_cost_usd)
    /\ ret.scaled.estimated_total_cost_usd
          # F64MulInt(3, ret.result.estimated_total_cost_usd)

----------------------------------------------------------------------------
(* Properties of repeated recommendations, checked under SpecRepeat *)

(* C13: a recommendation from manual parameters with every field supplied,  *)
(* made again after any calls of select_crops, irrigation_plan_for_crop,    *)
(* cost_estimate, analyze_and_suggest and other recommendations, returns    *)
(* the result it returned the first time, whatever the random source gives  *)
(* on either call; and the crop table is at every moment the table the      *)
(* module defined.                                                          *)
C13_RepeatIdentical ==
    /\ db = CROP_DB
    /\ ~IsNone(repeat.again) => Val(repeat.again) = Val(repeat.first).result

C13_Witness ==
    /\ ~IsNone(repeat.again)
    /\ repeat.between = {"select_crops", "irrigation_plan_for_crop", "cost_estimate",
                         "analyze_and_suggest", "recommend"}
    /\ Val(repeat.first).req.soil_type = Some(T_Clay)
    /\ Val(repeat.again).status = 200
    /\ Len(Val(repeat.again).json.suggestions) = 2

----------------------------------------------------------------------------
(* Further properties of the core functions, checked under SpecCore *)

(* C14: the profile analyze_soil_image_path returns has exactly the fields  *)
(* soil_type, texture and moisture_pct, and so no pH, for every path and    *)
(* every random outcome; the profile analyze_soil_from_params returns has a *)
(* pH, whether pH was supplied or not.                                      *)
C14_PHOnlyFromParams ==
    /\ ret.op = "analyze_soil_image_path" =>
          /\ DOMAIN ret.result = {"soil_type", "texture", "moisture_pct"}
          /\ "pH" \notin DOMAIN ret.result
    /\ (ret.op = "analyze_soil_from_params" /\ ~ret.result.raised) =>
          /\ "pH" \in DOMAIN ret.result.value
          /\ IsNone(ret.pH) => ret.result.value.pH \in RandomPH
          /\ ~IsNone(ret.pH) => ret.result.value.pH = Float(Val(ret.pH)).value

C14_Witness ==
    /\ ret.op = "analyze_soil_image_path"
    /\ ret.path = S_placeholder
    /\ ret.result.texture = S_inferred
    /\ DOMAIN ret.result = {"soil_type", "texture", "moisture_pct"}

----------------------------------------------------------------------------
(* Further properties of the front-ends, checked under Spec *)

(* C15, as claimed: whatever the mode field of a request to                 *)
(* web_app.analyze, a soil function is called with manual parameters or     *)
(* with an image path that is a str, the staging path:                      *)
(* analyze_soil_image_path is never called with None.                       *)
C15_ImageReferenceNeverAbsent ==
    \A p \in Procs :
        (h[p].handler = "web_app.analyze" /\ "analyze_soil_image_path" \in h[p].calls) =>
            /\ ~IsNone(h[p].image_path)
            /\ h[p].image_path = Some(S_tmp_upload)

(* The request is a params-mode request to web_app.analyze whose            *)
(* water_budget field is missing or blank                                   *)
NoBudgetGiven(x) ==
    /\ x.handler = "web_app.analyze"
    /\ Get(x.req.mode, S_params) = S_params
    /\ (IsNone(x.req.water_budget) \/ Val(x.req.water_budget) = <<>>)

(* C16, as claimed: a params-mode request to web_app.analyze whose          *)
(* water_budget field is missing or blank has no budget: the budget the     *)
(* handler holds and hands to irrigation_plan_for_crop is None or a number, *)
(* never a str, and when its other fields parse the request is answered 200 *)
(* with water_budget_l_per_day null and meets_budget true in every          *)
(* suggestion.                                                              *)
C16_BlankBudgetIsNoBudget ==
    \A p \in Procs :
        NoBudgetGiven(h[p]) =>
            /\ ~IsStr(h[p].water_budget)
            /\ (Done(h[p]) /\ \A f \in NumericFields(h[p]) : ~Unparseable(f)) =>
                  /\ Status(h[p]) = 200
                  /\ Json(h[p]).success = TRUE
                  /\ Json(h[p]).water_budget_l_per_day = None
                  /\ \A i \in 1..Len(Json(h[p]).suggestions) :
                        Json(h[p]).suggestions[i].irrigation.meets_budget = TRUE

----------------------------------------------------------------------------
(* Properties of concurrent requests, checked under SpecConcurrent *)

(* C17: under every interleaving of the steps of two workers serving valid  *)
(* image-mode requests to web_app.analyze, which all stage their upload at  *)
(* "./_tmp_upload.jpg", every request is answered 200 with success true,    *)
(* and whenever no request is in progress the staged file does not exist.   *)
C17_ConcurrentUploadsSucceed ==
    /\ \A p \in DOMAIN h :
          Done(h[p]) => (Status(h[p]) = 200 /\ Json(h[p]).success = TRUE)
    /\ (\A p \in DOMAIN h : h[p].pc \in {"idle", "done"}) => IsNone(fs)

C17_Witness ==
    /\ Cardinality(DOMAIN h) >= 2
    /\ \A p \in DOMAIN h :
          /\ Done(h[p])
          /\ h[p].staged
          /\ Status(h[p]) = 200
    /\ IsNone(fs)

----------------------------------------------------------------------------
(* Further properties of the front-ends, checked under Spec *)

(* C18: in web_app.analyze (image mode) and analyze_endpoint (with an       *)
(* upload) the classifier is given the staging path "./_tmp_upload.jpg",    *)
(* never the upload's own name: the staging name holds none of the keywords *)
(* clay, sand, loam, so whatever the upload is named the profile is one     *)
(* that analyze_soil_image_path returns for the staging path: soil_type the *)
(* random choice among the four types, texture "inferred".                  *)
C18_ClassifiedByStagingName ==
    \A p \in Procs :
        (IsHttp(h[p]) /\ h[p].staged /\ ~IsNone(h[p].soil)) =>
            LET soil == Val(h[p].soil)
            IN  /\ h[p].image_path = Some(S_tmp_upload)
                /\ \A kw \in {S_clay, S_sand, S_loam} :
                      ~Contains(Lower(Basename(S_tmp_upload)), kw)
                /\ soil.texture = S_inferred
                /\ soil.soil_type \in {S_loam, S_sandy, S_clay, S_silty}
                /\ \E rnd_soil \in RandomSoilTypes, rnd_moisture \in RandomMoisture :
                      soil = analyze_soil_image_path(S_tmp_upload, rnd_soil, rnd_moisture)

C18_Witness ==
    \E p \in Procs :
        /\ h[p].handler = "web_app.analyze"
        /\ h[p].req.image = Some(T_image_name)
        /\ Contains(Lower(T_image_name), S_clay)
        /\ HasResult(h[p])
        /\ Json(h[p]).soil_analysis.soil_type = S_silty
        /\ Json(h[p]).soil_analysis.texture = S_inferred

----------------------------------------------------------------------------
(* Further properties of the core functions, checked under SpecCore *)

(* The intensity of an irrigation method: drip < sprinkler < flood *)
Intensity(method) ==
    CASE method = "drip" -> 1
      [] method = "sprinkler" -> 2
      [] method = "flood" -> 3

(* C19: in every result of analyze_and_suggest, for every soil type and     *)
(* every water budget, once a suggestion has meets_budget = false every     *)
(* later one has it too (the crops that fit the budget are a prefix of the  *)
(* list), and the irrigation methods never decrease in intensity along the  *)
(* list: drip before sprinkler before flood.                                *)
C19_BudgetAndMethodMonotone ==
    (ret.op = "analyze_and_suggest" /\ ~ret.result.raised) =>
        LET sg == ret.result.value.suggestions
        IN  \A i \in 1..Len(sg), j \in 1..Len(sg) :
                i < j =>
                    /\ sg[i].irrigation.meets_budget = FALSE =>
                          sg[j].irrigation.meets_budget = FALSE
                    /\ Intensity(sg[i].irrigation.method)
                          <= Intensity(sg[j].irrigation.method)

C19_Witness ==
    /\ ret.op = "analyze_and_suggest"
    /\ ret.water_budget = Some(Num(250))
    /\ ~ret.result.raised
    /\ ret.result.value.soil_analysis.soil_type = S_loam
    /\ Len(ret.result.value.suggestions) = 3
    /\ ret.result.value.suggestions[2].irrigation.meets_budget = TRUE
    /\ ret.result.value.suggestions[2].irrigation.method = "drip"
    /\ ret.result.value.suggestions[3].irrigation.meets_budget = FALSE
    /\ ret.result.value.suggestions[3].irrigation.method = "sprinkler"

====
